---- MODULE Spec2Model ----
(***************************************************************************)
(* The communication and observation graphs of nepiada                     *)
(* (src/src/nepiada/utils/graphs.py, class Graph), as driven by the        *)
(* environment (src/src/nepiada/env/nepiada.py).                           *)
(*                                                                         *)
(* A dict of agents is a function from agent ids to grid positions; its    *)
(* iteration order (Python dicts iterate in insertion order, and the world *)
(* inserts the agents in id order) is ascending id.  An adjacency list is  *)
(* a sequence of agent ids, as the Python lists are.                       *)
(*                                                                         *)
(* np.sqrt is monotone and exact on perfect squares, so for integer        *)
(* coordinates and an integer radius r the test sqrt(dx^2+dy^2) < r is the *)
(* test r > 0 /\ dx^2+dy^2 < r^2, and sorting on the distance is sorting   *)
(* on the squared distance.  Distances are kept squared throughout.        *)
(***************************************************************************)
EXTENDS Integers, Sequences, FiniteSets, TLC

\* ---- bounds of the model ----
MaxAgents == 3
MaxCoord == 1
MaxRadius == 2
MaxMinimum == 2

AgentIds == 1..MaxAgents
Points == (0..MaxCoord) \X (0..MaxCoord)
Radii == 1..MaxRadius
Minimums == 1..MaxMinimum

\* Every dict of agents a caller can hand over: a non-empty set of ids, each
\* with a position.
AgentDicts == UNION {[K -> Points] : K \in (SUBSET AgentIds) \ {{}}}

\* The positions of the specification's Scenarios A and B, and the dicts of
\* agents placed on them.
ScenarioPoints == {<<0, 0>>, <<1, 0>>, <<10, 10>>}
ScenarioDicts == UNION {[K -> ScenarioPoints] : K \in (SUBSET AgentIds) \ {{}}}

VARIABLES
    agents,                         \* self.agents: id -> p_pos
    obs,                            \* self.obs: id -> list of ids
    comm,                           \* self.comm: id -> list of ids
    dynamic_obs,                    \* self.dynamic_obs
    dynamic_comms,                  \* self.dynamic_comms
    dynamic_comms_radius,           \* self.dynamic_comms_radius
    dynamic_comms_enforce_minimum,  \* self.dynamic_comms_enforce_minimum
    observation_radius,             \* self.observation_radius
    snapshot,                       \* the dict of agents the last call was given
    last,                           \* the last call: "init", "update", "reset"
    updated,                        \* whether update_graphs has been called
    resets,                         \* reset_graphs calls in a row (capped at 2)
    raised                          \* what the last call raised: "none" or an error

config == <<dynamic_obs, dynamic_comms, dynamic_comms_radius,
            dynamic_comms_enforce_minimum, observation_radius>>
vars == <<agents, obs, comm, config, snapshot, last, updated, resets, raised>>

\* ---- helpers: Python lists and dict iteration ----
Range(s) == {s[i] : i \in 1..Len(s)}

Min2(a, b) == IF a < b THEN a ELSE b

RECURSIVE Keys(_)
\* The keys of a dict in iteration order, given its key set.
Keys(K) ==
    IF K = {} THEN <<>>
    ELSE LET k == CHOOSE x \in K : \A y \in K : x <= y
         IN <<k>> \o Keys(K \ {k})

\* lst[:n] for n >= 0
Slice(lst, n) == SubSeq(lst, 1, Min2(n, Len(lst)))

\* ---- distance ----
\* Faulty variant: delta_y taken from the agent's x_coord.
Distance2Mixed(p, q) == (q[1] - p[1]) * (q[1] - p[1]) + (q[2] - p[1]) * (q[2] - p[1])
\* delta_x**2 + delta_y**2, the argument of np.sqrt
Distance2(p, q) == (q[1] - p[1]) * (q[1] - p[1]) + (q[2] - p[2]) * (q[2] - p[2])

\* Faulty variants of the comparison: distance > radius, distance <= radius.
WithinFlipped(d2, radius) == d2 > radius * radius
WithinInclusive(d2, radius) == radius > 0 /\ d2 <= radius * radius
\* distance < radius
Within(d2, radius) == radius > 0 /\ d2 < radius * radius

\* ---- _update_obs_graph ----
RECURSIVE ObsScan(_, _, _, _)
\* The inner loop over other_agent_name: the list self.obs[agent_name] after
\* the peers in `rest` have been visited.
ObsScan(ags, a, rest, radius) ==
    IF rest = <<>> THEN <<>>
    ELSE LET b == Head(rest)
             more == ObsScan(ags, a, Tail(rest), radius)
         IN IF b # a /\ Within(Distance2(ags[a], ags[b]), radius)
            THEN <<b>> \o more
            ELSE more

\* Faulty variant: self.obs is not reset first, so the lists of the tick
\* before are appended to.
ObsGraphStale(ags, radius) ==
    [a \in DOMAIN ags |->
        (IF a \in DOMAIN obs THEN obs[a] ELSE <<>>)
            \o ObsScan(ags, a, Keys(DOMAIN ags), radius)]
\* The dynamic branch: the graph rebuilt from the given agents alone.
ObsGraph(ags, radius) ==
    [a \in DOMAIN ags |-> ObsScan(ags, a, Keys(DOMAIN ags), radius)]

\* Faulty variant: the graph is rebuilt whatever dynamic_obs says.
_update_obs_graph_always(ags) == ObsGraph(ags, observation_radius)
\* _update_obs_graph(agents): the new self.obs
_update_obs_graph(ags) ==
    IF dynamic_obs THEN ObsGraph(ags, observation_radius) ELSE obs

\* ---- _update_comm_graph ----
RECURSIVE CommScan(_, _, _, _, _)
\* The inner loop over other_agent_name.  acc.near is self.comm[agent_name] and
\* acc.not_added is distances_to_agents_not_added, a list of <<distance, name>>.
CommScan(ags, a, rest, radius, acc) ==
    IF rest = <<>> THEN acc
    ELSE LET b == Head(rest)
             d == Distance2(ags[a], ags[b])
             step == IF b = a THEN acc
                     ELSE IF Within(d, radius)
                          THEN [acc EXCEPT !.near = Append(@, b)]
                          ELSE [acc EXCEPT !.not_added = Append(@, <<d, b>>)]
         IN CommScan(ags, a, Tail(rest), radius, step)

\* Faulty variant: an unstable sort that puts a later entry before its ties.
InsertByDistanceTiesFirst(sorted, e) ==
    LET n == Cardinality({i \in 1..Len(sorted) : sorted[i][1] < e[1]})
    IN SubSeq(sorted, 1, n) \o <<e>> \o SubSeq(sorted, n + 1, Len(sorted))
\* list.sort(key=lambda x: x[0]) is stable: an entry goes after every entry
\* whose distance is not larger.
InsertByDistance(sorted, e) ==
    LET n == Cardinality({i \in 1..Len(sorted) : sorted[i][1] <= e[1]})
    IN SubSeq(sorted, 1, n) \o <<e>> \o SubSeq(sorted, n + 1, Len(sorted))

RECURSIVE SortByDistance(_)
SortByDistance(lst) ==
    IF lst = <<>> THEN <<>>
    ELSE InsertByDistance(SortByDistance(SubSeq(lst, 1, Len(lst) - 1)), lst[Len(lst)])

\* Faulty variant: one peer too few.
AmountMissingShort(minimum, have) == minimum - have - 1
\* amount_missing
AmountMissing(minimum, have) == minimum - have

\* self.comm[agent_name] at the end of the outer loop's pass for agent a.
CommList(ags, a, radius, minimum) ==
    LET scan == CommScan(ags, a, Keys(DOMAIN ags), radius,
                         [near |-> <<>>, not_added |-> <<>>])
        near == scan.near
    IN IF Len(near) < minimum
       THEN LET sorted == SortByDistance(scan.not_added)
                added == Slice(sorted, AmountMissing(minimum, Len(near)))
            IN near \o [i \in 1..Len(added) |-> added[i][2]]
       ELSE near

\* The dynamic branch: the graph rebuilt from the given agents alone.
CommGraph(ags, radius, minimum) ==
    [a \in DOMAIN ags |-> CommList(ags, a, radius, minimum)]

\* _update_comm_graph(agents): the new self.comm
_update_comm_graph(ags) ==
    IF dynamic_comms
    THEN CommGraph(ags, dynamic_comms_radius, dynamic_comms_enforce_minimum)
    ELSE comm

\* ---- construction and reset ----
\* all_agents = [agent for agent in self.agents]
all_agents(ags) == Keys(DOMAIN ags)

\* {agent: [] for agent in self.agents}
EmptyGraph(ags) == [a \in DOMAIN ags |-> <<>>]

\* Graph.__init__: the communication graph
InitComm(ags, dynamic) ==
    IF ~dynamic THEN [a \in DOMAIN ags |-> all_agents(ags)] ELSE EmptyGraph(ags)

\* Faulty variant: the lists are extended instead of rebuilt.
ResetCommExtend(ags, dynamic) ==
    [a \in DOMAIN ags |->
        (IF a \in DOMAIN comm THEN comm[a] ELSE <<>>)
            \o (IF ~dynamic THEN all_agents(ags) ELSE <<>>)]
\* reset_graphs: the communication graph
ResetComm(ags, dynamic) ==
    IF ~dynamic THEN [a \in DOMAIN ags |-> all_agents(ags)] ELSE EmptyGraph(ags)

\* Faulty variant: the observation graph is left as it is.
ResetObsKept(ags) == obs
\* reset_graphs: the observation graph
ResetObs(ags) == EmptyGraph(ags)

\* ---- the state machine ----
\* Graph(config, agents), the agents drawn from the dicts D
Construct(D) ==
    /\ dynamic_obs \in BOOLEAN
    /\ dynamic_comms \in BOOLEAN
    /\ dynamic_comms_radius \in Radii
    /\ dynamic_comms_enforce_minimum \in Minimums
    /\ observation_radius \in Radii
    /\ agents \in D
    /\ comm = InitComm(agents, dynamic_comms)
    /\ obs = EmptyGraph(agents)
    /\ snapshot = agents
    /\ last = "init"
    /\ updated = FALSE
    /\ resets = 0
    /\ raised = "none"

Init == Construct(AgentDicts)

\* update_graphs(agents): no statement of it raises
update_graphs(ags) ==
    /\ agents' = ags
    /\ obs' = _update_obs_graph(ags)
    /\ comm' = _update_comm_graph(ags)
    /\ snapshot' = ags
    /\ last' = "update"
    /\ updated' = TRUE
    /\ resets' = 0
    /\ raised' = "none"
    /\ UNCHANGED config

reset_graphs ==
    /\ comm' = ResetComm(agents, dynamic_comms)
    /\ obs' = ResetObs(agents)
    /\ last' = "reset"
    /\ resets' = Min2(resets + 1, 2)
    /\ raised' = "none"
    /\ UNCHANGED <<agents, config, snapshot, updated>>

\* nepiada.step -> world.update_graphs -> Graph.update_graphs
Step == \E ags \in AgentDicts : update_graphs(ags)

\* nepiada.reset -> Graph.reset_graphs
Reset == reset_graphs

Next == Step \/ Reset

Spec == Init /\ [][Next]_vars

\* The same engine with the agents on the scenarios' positions.
InitScenario == Construct(ScenarioDicts)

StepScenario == \E ags \in ScenarioDicts : update_graphs(ags)

NextScenario == StepScenario \/ Reset

SpecScenario == InitScenario /\ [][NextScenario]_vars

\* ---- what the claims speak of ----
\* The roster: the ids of the agents the engine holds.
Roster == DOMAIN agents

\* The peers of a in the roster.
Peers(a) == Roster \ {a}

\* Euclidean distance between two positions strictly below r (r >= 0).
StrictlyCloser(p, q, r) == Distance2(p, q) < r * r

\* The peers of a strictly inside / not inside radius r, by position.
InRadius(a, r) == {b \in Peers(a) : StrictlyCloser(agents[a], agents[b], r)}
OutOfRadius(a, r) == Peers(a) \ InRadius(a, r)

\* C1. No self-loops: in every reachable state no agent is in its own
\* observation list or in its own communication list.
C1_NoSelfLoops ==
    /\ \A a \in DOMAIN obs : a \notin Range(obs[a])
    /\ \A a \in DOMAIN comm : a \notin Range(comm[a])

\* C2. Static completeness: when dynamic_comms is false, in every reachable
\* state the communication list of every roster agent, as a set, is the
\* roster minus the agent itself.
C2_StaticCompleteness ==
    ~dynamic_comms =>
        \A a \in Roster : a \in DOMAIN comm /\ Range(comm[a]) = Roster \ {a}

\* C3. Minimum enforcement: when dynamic_comms is true and the roster has at
\* least dynamic_comms_enforce_minimum agents besides any one of them, then
\* right after update_graphs every agent's communication list holds at least
\* dynamic_comms_enforce_minimum distinct agents.
C3_MinimumEnforced ==
    (/\ last = "update"
     /\ dynamic_comms
     /\ Cardinality(Roster) - 1 >= dynamic_comms_enforce_minimum)
        => \A a \in Roster :
              Cardinality(Range(comm[a])) >= dynamic_comms_enforce_minimum

\* C3's case: an update after which some agent has fewer in-radius peers than
\* the minimum, so that its list had to be filled from outside the radius.
C3_Witness ==
    /\ last = "update"
    /\ dynamic_comms
    /\ Cardinality(Roster) - 1 >= dynamic_comms_enforce_minimum
    /\ \E a \in Roster :
          /\ Cardinality(InRadius(a, dynamic_comms_radius))
                < dynamic_comms_enforce_minimum
          /\ Cardinality(Range(comm[a])) = dynamic_comms_enforce_minimum

\* C4. Input validation: an update_graphs call whose dict of agents has a key
\* set other than the roster raises InvalidInput and leaves obs, comm and the
\* roster as they were.
C4_InvalidInputRejected ==
    [][(last' = "update" /\ DOMAIN snapshot' # DOMAIN agents)
          => (raised' = "InvalidInput" /\ UNCHANGED <<obs, comm, agents>>)]_vars

\* C5. Reset restores the construction-time shape: reset_graphs leaves comm
\* equal to the graph the constructor builds over the roster under the same
\* dynamic_comms flag, leaves obs mapping every roster agent to the empty
\* list, and changes no configuration field.
C5_ResetRestores ==
    [][last' = "reset"
          => (/\ comm' = InitComm(agents', dynamic_comms')
              /\ obs' = [a \in DOMAIN agents' |-> <<>>]
              /\ agents' = agents
              /\ config' = config)]_vars

\* C5's case: a reset that came after an update which had populated both
\* dynamic graphs (two agents within both radii), and emptied them.
C5_Witness ==
    /\ last = "reset"
    /\ updated
    /\ dynamic_obs
    /\ dynamic_comms
    /\ \E a \in Roster : InRadius(a, observation_radius) # {}
    /\ \E a \in Roster : InRadius(a, dynamic_comms_radius) # {}
    /\ \A a \in Roster : obs[a] = <<>> /\ comm[a] = <<>>

\* C6. Static graphs are framed by update: update_graphs leaves comm
\* unchanged when dynamic_comms is false and leaves obs unchanged when
\* dynamic_obs is false; a static observation graph has every list empty in
\* every reachable state.
C6_StaticFramed ==
    /\ [][last' = "update"
             => (/\ ~dynamic_comms => comm' = comm
                 /\ ~dynamic_obs => obs' = obs)]_vars
    /\ [](~dynamic_obs => \A a \in DOMAIN obs : obs[a] = <<>>)

\* C6's case: an update of an engine with both graphs static, given agents
\* that are within the observation radius of each other and a key set other
\* than the one the static graphs were built over.
C6_Witness ==
    /\ last = "update"
    /\ ~dynamic_obs
    /\ ~dynamic_comms
    /\ \E a \in Roster : InRadius(a, observation_radius) # {}
    /\ DOMAIN comm # Roster

\* C7. Radius monotonicity: after update_graphs with dynamic_obs, every edge
\* of the observation graph is an edge of the observation graph that an
\* engine with a larger (or equal) observation_radius computes from the same
\* agents.
C7_RadiusMonotone ==
    (last = "update" /\ dynamic_obs)
        => \A r2 \in Radii :
              observation_radius <= r2
                 => \A a \in DOMAIN obs :
                       Range(obs[a]) \subseteq Range(ObsGraph(agents, r2)[a])

\* C7's case: a larger radius adds an edge to a non-empty observation list.
C7_Witness ==
    /\ last = "update"
    /\ dynamic_obs
    /\ \E r2 \in Radii, a \in DOMAIN obs :
          /\ observation_radius < r2
          /\ obs[a] # <<>>
          /\ Range(obs[a]) # Range(ObsGraph(agents, r2)[a])

\* C8. Reset idempotence: a reset_graphs call that directly follows a
\* reset_graphs call leaves obs and comm as the first one left them.
C8_ResetIdempotent ==
    [][(last = "reset" /\ last' = "reset") => (obs' = obs /\ comm' = comm)]_vars

\* C8's case: two resets in a row after an update, on an engine whose static
\* communication graph is not empty.
C8_Witness ==
    /\ last = "reset"
    /\ resets = 2
    /\ updated
    /\ ~dynamic_comms
    /\ Cardinality(Roster) > 1

\* The members of a set of ids as a list in roster enumeration order.
InRosterOrder(S) ==
    [i \in 1..Cardinality(S) |->
        CHOOSE b \in S : Cardinality({c \in S : c < b}) = i - 1]

\* How many of the out-of-radius peers of a come before b when they are put in
\* ascending order of distance, ties in roster enumeration order.
FillRank(a, b, r) ==
    Cardinality({c \in OutOfRadius(a, r) :
        \/ Distance2(agents[a], agents[c]) < Distance2(agents[a], agents[b])
        \/ /\ Distance2(agents[a], agents[c]) = Distance2(agents[a], agents[b])
           /\ c < b})

\* k = max(0, min(minimum - |in-radius|, |out-of-radius|))
FillCount(a, r, minimum) ==
    LET want == minimum - Cardinality(InRadius(a, r))
        pool == Cardinality(OutOfRadius(a, r))
        k == IF want < pool THEN want ELSE pool
    IN IF k < 0 THEN 0 ELSE k

\* The in-radius peers followed by the first k out-of-radius peers.
ExpectedComm(a, r, minimum) ==
    InRosterOrder(InRadius(a, r))
        \o [i \in 1..FillCount(a, r, minimum) |->
               CHOOSE b \in OutOfRadius(a, r) : FillRank(a, b, r) = i - 1]

\* Scenario B: agent0, agent1, agent2 (ids 1, 2, 3) at (0,0), (1,0), (10,10),
\* dynamic_comms_radius 2, dynamic_comms_enforce_minimum 1, after an update.
ScenarioB == (1 :> <<0, 0>>) @@ (2 :> <<1, 0>>) @@ (3 :> <<10, 10>>)
InScenarioB ==
    /\ last = "update"
    /\ dynamic_comms
    /\ agents = ScenarioB
    /\ dynamic_comms_radius = 2
    /\ dynamic_comms_enforce_minimum = 1

\* The rule of C9 without its scenario.
CommFillRule ==
    (last = "update" /\ dynamic_comms)
        => \A a \in Roster :
              /\ comm[a] = ExpectedComm(a, dynamic_comms_radius,
                                        dynamic_comms_enforce_minimum)
              /\ Cardinality(InRadius(a, dynamic_comms_radius))
                     >= dynamic_comms_enforce_minimum
                    => Range(comm[a]) = InRadius(a, dynamic_comms_radius)
              /\ Cardinality(Roster) - 1 < dynamic_comms_enforce_minimum
                    => Range(comm[a]) = Peers(a)

\* C9 as stated. Dynamic communication fill: after update_graphs with
\* dynamic_comms, every agent's communication list is its in-radius peers
\* followed by the first k out-of-radius peers in ascending order of distance,
\* ties in roster order; nothing is appended when the in-radius peers meet the
\* minimum, and the list is all other agents when there are fewer of them than
\* the minimum.  In Scenario B agent2's two peers are tied and its list is the
\* first of them in roster order, agent0.
C9_CommFillAsStated ==
    /\ CommFillRule
    /\ InScenarioB => comm[3] = <<1>>

\* C9 as amended: the same rule; in Scenario B agent2's peers are not tied
\* (agent1 is at distance sqrt(181), agent0 at sqrt(200)) and its list is the
\* nearer one, agent1.
C9_CommFill ==
    /\ CommFillRule
    /\ InScenarioB =>
          /\ Distance2(agents[3], agents[2]) < Distance2(agents[3], agents[1])
          /\ comm[3] = <<2>>
          /\ comm[1] = <<2>>
          /\ comm[2] = <<1>>

\* C9's case: an agent with no in-radius peer and two out-of-radius peers at
\* the same distance, of which the minimum admits one: the first in roster
\* order is in its list and the other is not.
C9_Witness ==
    /\ last = "update"
    /\ dynamic_comms
    /\ \E a \in Roster : \E b, c \in OutOfRadius(a, dynamic_comms_radius) :
          /\ b < c
          /\ Distance2(agents[a], agents[b]) = Distance2(agents[a], agents[c])
          /\ comm[a] = <<b>>

\* C10. Dynamic observation is recomputed from scratch: after update_graphs
\* with dynamic_obs, for every two distinct agents A and B of the dict that was
\* handed over, B is in obs[A] exactly when their distance in that dict is
\* strictly less than observation_radius, whatever the graphs and positions
\* were before the call.
C10_ObsFromSnapshot ==
    (last = "update" /\ dynamic_obs)
        => /\ DOMAIN obs = DOMAIN snapshot
           /\ \A a, b \in DOMAIN snapshot :
                 a # b =>
                    (b \in Range(obs[a])
                        <=> StrictlyCloser(snapshot[a], snapshot[b],
                                           observation_radius))

\* C10's case: after an update, one peer is observed and another, at a
\* distance exactly equal to the radius, is not.
C10_Witness ==
    /\ last = "update"
    /\ dynamic_obs
    /\ \E a, b, c \in DOMAIN snapshot :
          /\ a # b /\ a # c
          /\ b \in Range(obs[a])
          /\ Distance2(snapshot[a], snapshot[c])
                = observation_radius * observation_radius
          /\ c \notin Range(obs[a])

\* The two states of a graph: Empty when every agent's list is empty,
\* Populated otherwise.
Empty(graph) == \A a \in DOMAIN graph : graph[a] = <<>>
Populated(graph) == ~Empty(graph)

C12_ObsSymmetric ==
    dynamic_obs =>
        \A a, b \in DOMAIN obs : b \in Range(obs[a]) <=> a \in Range(obs[b])

\* C12's case: after an update, two agents observe each other and a third
\* agent is observed by neither.
C12_Witness ==
    /\ last = "update"
    /\ dynamic_obs
    /\ \E a, b, c \in DOMAIN obs :
          /\ a # b
          /\ b \in Range(obs[a]) /\ a \in Range(obs[b])
          /\ c \notin Range(obs[a]) /\ c \notin Range(obs[b])
          /\ c # a /\ c # b

====
